---- MODULE Spec2Model ----
(***************************************************************************)
(* Model of IFC_insert_antenna.py: the placement solver, the migration of  *)
(* the donor antenna into the segment model, the re-creation of its        *)
(* inverse relations, the attachment to the spatial container, the         *)
(* regeneration of global identifiers, the owner-history harmonisation     *)
(* and the final write, as the sequential steps of main().                 *)
(*                                                                         *)
(* A model (ifcopenshell.file) is a function from entity ids to entity     *)
(* records.  Ids of the segment model and of the antenna model are drawn   *)
(* from the same small integers on purpose: they are not comparable.       *)
(* Lengths are integers in model units; EPS is below one unit, so          *)
(* |x| < EPS is x = 0 on these values.                                     *)
(***************************************************************************)
EXTENDS Integers, Sequences, FiniteSets, TLC

VARIABLES
    pc,                   \* position in main() (or in a harness)
    args,                 \* parse_args(): the command line
    segment_file,         \* entities of the segment IFC file on disk
    column_geometry,      \* type-level geometry of each IfcColumn of the segment
    reference_inverse,    \* rotation block of the inverse container placement
    antenna_file,         \* entities of the antenna IFC file on disk
    segment_model,        \* the opened segment model (the migration target)
    antenna_model,        \* the opened antenna model (the donor)
    unit_scale_to_si,     \* calculate_unit_scale(segment_model)
    candidates,           \* compute_leg_placement: the candidate list
    leg_placement,        \* <<the selected candidate>>, <<>> before
    target_container,     \* id of the spatial container of the selected leg
    source_antenna,       \* id of the antenna in antenna_model
    target_antenna,       \* id of its clone in segment_model
    target_owner_history, \* first_owner_history(segment_model), 0 for None
    migrated_ids,         \* Migrator.migrated_ids: source id -> target id
    next_guid,            \* ifcopenshell.guid.new(): next unused identifier
    output_file,          \* <<model>> once written to the output path, <<>> before
    exit_code,            \* <<status>> once the process has exited, <<>> before
    prev_model,           \* history: segment_model before the last step
    calls                 \* history: the calls made, in order

vars == <<pc, args, segment_file, column_geometry, reference_inverse,
          antenna_file, segment_model, antenna_model, unit_scale_to_si,
          candidates, leg_placement, target_container, source_antenna,
          target_antenna, target_owner_history, migrated_ids,
          next_guid, output_file, exit_code, prev_model, calls>>

----------------------------------------------------------------------------
(* Bounds of the model *)

\* largest --height-m tried (0 is the non-positive case)
MaxHeight == 3
\* largest --leg-index tried (-1 is the negative case)
MaxLegIndex == 2
\* number of IfcColumn entities in the segment file
MaxColumns == 3
\* elements other than the legs already held by a containment relation
MaxSiblings == 1

(* Program constants *)

\* EPS = 1e-9, in units where every modelled length is an integer
EPS == 1

Null == 0
EmptyModel == [i \in {} |-> 0]

----------------------------------------------------------------------------
(* Entities *)

Blank ==
    [is_a |-> "", GlobalId |-> 0, PredefinedType |-> "", OwnerHistory |-> Null,
     ObjectPlacement |-> Null, Representation |-> Null,
     Relating |-> Null, Related |-> <<>>,
     OwningUser |-> Null, OwningApplication |-> Null,
     ThePerson |-> Null, TheOrganization |-> Null]

\* entity_instance attributes holding one entity reference, in schema order
\* (Relating is RelatingType / RelatingPropertyDefinition / RelatingMaterial /
\*  RelatingStructure; TheOrganization is also IfcApplication.ApplicationDeveloper)
SingleRefs ==
    <<"OwnerHistory", "ObjectPlacement", "Representation", "Relating",
      "OwningUser", "OwningApplication", "ThePerson", "TheOrganization">>

RootClasses ==
    {"IfcColumn", "IfcCommunicationsAppliance", "IfcBuildingStorey",
     "IfcProxy", "IfcColumnType", "IfcCommunicationsApplianceType",
     "IfcPropertySet", "IfcRelDefinesByType", "IfcRelDefinesByProperties",
     "IfcRelAssociatesMaterial", "IfcRelContainedInSpatialStructure"}

TypeObjectClasses == {"IfcColumnType", "IfcCommunicationsApplianceType"}

\* entity.is_a(name): the class itself or one of its supertypes
IsA(e, name) ==
    \/ e.is_a = name
    \/ name = "IfcRoot" /\ e.is_a \in RootClasses
    \/ name = "IfcTypeObject" /\ e.is_a \in TypeObjectClasses

\* classes the schema of the segment model can create
TargetSchema ==
    RootClasses \cup
    {"IfcOwnerHistory", "IfcApplication", "IfcPersonAndOrganization",
     "IfcPerson", "IfcOrganization", "IfcLocalPlacement",
     "IfcAxis2Placement3D", "IfcCartesianPoint", "IfcDirection",
     "IfcMaterial", "IfcPropertySingleValue",
     "IfcProductDefinitionShape"}

----------------------------------------------------------------------------
(* Sequences and sets *)

Max(S) == CHOOSE x \in S : \A y \in S : y <= x
Min(S) == CHOOSE x \in S : \A y \in S : x <= y

RECURSIVE SortedSeq(_)
SortedSeq(S) ==
    IF S = {} THEN <<>> ELSE <<Min(S)>> \o SortedSeq(S \ {Min(S)})

Range(s) == {s[i] : i \in 1..Len(s)}

Count(s, x) == Cardinality({i \in 1..Len(s) : s[i] = x})

\* function f with f[k] = v added or replaced
Put(f, k, v) == [x \in DOMAIN f \cup {k} |-> IF x = k THEN v ELSE f[x]]

\* function f without key k
Drop(f, k) == [x \in DOMAIN f \ {k} |-> f[x]]

----------------------------------------------------------------------------
(* Queries of ifcopenshell.file *)

\* file.by_type(name): the matching ids in model iteration (id) order
by_type(model, name) ==
    SortedSeq({i \in DOMAIN model : IsA(model[i], name)})

\* every id the entity refers to
RefsOf(e) ==
    ({e[a] : a \in Range(SingleRefs)} \cup Range(e.Related)) \ {Null}

\* file.get_inverse(entity): the entities referring to it, in id order
get_inverse(model, id) ==
    SortedSeq({i \in DOMAIN model : id \in RefsOf(model[i])})

\* file.create_entity / file.add: the id given to a new entity
FreshId(model) == IF DOMAIN model = {} THEN 1 ELSE Max(DOMAIN model) + 1

\* inverse attribute IfcSpatialElement.ContainsElements
ContainsElements(model, container) ==
    SortedSeq({i \in DOMAIN model :
        /\ model[i].is_a = "IfcRelContainedInSpatialStructure"
        /\ model[i].Relating = container})

\* inverse attribute IfcElement.ContainedInStructure
ContainedInStructure(model, element) ==
    SortedSeq({i \in DOMAIN model :
        /\ model[i].is_a = "IfcRelContainedInSpatialStructure"
        /\ element \in Range(model[i].Related)})

\* first_owner_history(model)
first_owner_history(model) ==
    LET histories == by_type(model, "IfcOwnerHistory")
    IN IF histories # <<>> THEN histories[1] ELSE Null

----------------------------------------------------------------------------
(* Exact arithmetic standing for the floats of the source *)

Sgn(x) == IF x > 0 THEN 1 ELSE IF x < 0 THEN -1 ELSE 0
Abs(x) == IF x < 0 THEN -x ELSE x

\* the quotient n / d, d # 0
Rat(n, d) == [n |-> n, d |-> d]
RatSub(a, b) == Rat(a.n * b.d - b.n * a.d, a.d * b.d)
RatDiv(a, b) == Rat(a.n * b.d, a.d * b.n)
RatLess(a, b) ==
    a.n * b.d * Sgn(a.d) * Sgn(b.d) < b.n * a.d * Sgn(a.d) * Sgn(b.d)

RatAdd(a, b) == Rat(a.n * b.d + b.n * a.d, a.d * b.d)
RatMul(a, b) == Rat(a.n * b.n, a.d * b.d)
RatEq(a, b) == a.n * b.d = b.n * a.d
RECURSIVE Gcd(_, _)
Gcd(a, b) == IF b = 0 THEN a ELSE Gcd(b, a % b)
\* the quotient in lowest terms with a positive denominator
Reduced(a) ==
    LET g == Gcd(Abs(a.n), Abs(a.d))
    IN  Rat(Sgn(a.d) * (a.n \div g), Abs(a.d) \div g)

Sub(a, b) == <<a[1] - b[1], a[2] - b[2], a[3] - b[3]>>
Dot(a, b) == a[1] * b[1] + a[2] * b[2] + a[3] * b[3]
\* np.cross
Cross(a, b) ==
    <<a[2] * b[3] - a[3] * b[2],
      a[3] * b[1] - a[1] * b[3],
      a[1] * b[2] - a[2] * b[1]>>
\* np.linalg.norm(v) < EPS, on the squares
NormBelowEps(v) == Dot(v, v) < EPS * EPS

\* the square root of n, exact when n is a square (the lengths modelled are)
Sqrt(n) == CHOOSE r \in 0..n : r * r <= n /\ (r + 1) * (r + 1) > n
\* float(np.linalg.norm(v))
Norm(v) == Sqrt(Dot(v, v))

\* normalize(vector) raises ValueError
NormalizeRaises(v) == NormBelowEps(v)

----------------------------------------------------------------------------
(* Member geometry extractor *)

\* read_polycurve_points(curve): 2-D points get z = 0; other curves give none
read_polycurve_points(curve) ==
    IF curve.is_a \in {"IfcIndexedPolyCurve", "IfcPolyline"}
    THEN [i \in 1..Len(curve.Points) |->
            IF Len(curve.Points[i]) = 2
            THEN curve.Points[i] \o <<0>>
            ELSE curve.Points[i]]
    ELSE <<>>

\* the loop of get_column_axis_points from representation map i on
RECURSIVE AxisFromMaps(_, _)
AxisFromMaps(maps, i) ==
    IF i > Len(maps) THEN [ok |-> FALSE, start |-> <<>>, end |-> <<>>]
    ELSE IF maps[i].RepresentationIdentifier # "Axis" THEN AxisFromMaps(maps, i + 1)
    ELSE IF maps[i].Items = <<>> THEN AxisFromMaps(maps, i + 1)
    ELSE LET points == read_polycurve_points(maps[i].Items[1])
         IN IF Len(points) < 2 THEN AxisFromMaps(maps, i + 1)
            ELSE [ok |-> TRUE, start |-> points[1], end |-> points[Len(points)]]

\* get_column_axis_points(column): ok = FALSE stands for the ValueError
get_column_axis_points(geometry) ==
    IF ~geometry.IsTypedBy
    THEN [ok |-> FALSE, start |-> <<>>, end |-> <<>>]
    ELSE AxisFromMaps(geometry.RepresentationMaps, 1)

\* max(float(np.linalg.norm(point[:2])) for point in points)
MaxPlanarNorm(points) ==
    Max({Norm(<<points[i][1], points[i][2], 0>>) : i \in 1..Len(points)})

\* the loops of get_column_profile_info looking for the solid: from
\* representation map i on; the inner loop takes the first extruded solid of
\* a "Body" representation
RECURSIVE SolidFromMaps(_, _)
SolidFromMaps(maps, i) ==
    IF i > Len(maps) THEN <<>>
    ELSE IF maps[i].RepresentationIdentifier # "Body" THEN SolidFromMaps(maps, i + 1)
    ELSE LET solids == SelectSeq(maps[i].Items,
                                 LAMBDA item : item.is_a = "IfcExtrudedAreaSolid")
         IN  IF solids # <<>> THEN <<solids[1]>> ELSE SolidFromMaps(maps, i + 1)

\* get_column_profile_info(column): (outer_radius, inner_radius)
get_column_profile_info(geometry) ==
    IF ~geometry.IsTypedBy THEN [outer |-> 0, inner |-> 0]
    ELSE LET solid == SolidFromMaps(geometry.RepresentationMaps, 1)
         IN  IF solid = <<>> THEN [outer |-> 0, inner |-> 0]
             ELSE LET profile == solid[1].SweptArea
                      outer_points ==
                          IF profile.OuterCurve = <<>> THEN <<>>
                          ELSE read_polycurve_points(profile.OuterCurve[1])
                      first_inner_points ==
                          IF profile.InnerCurves = <<>> THEN <<>>
                          ELSE read_polycurve_points(profile.InnerCurves[1])
                  IN  [outer |-> IF outer_points = <<>> THEN 0
                                 ELSE MaxPlanarNorm(outer_points),
                       inner |-> IF first_inner_points = <<>> THEN 0
                                 ELSE MaxPlanarNorm(first_inner_points)]

----------------------------------------------------------------------------
(* Placement solver *)

global_up == <<0, 0, 1>>
world_x == <<1, 0, 0>>

\* the filter `abs(delta[2]) < EPS` of compute_leg_placement
AxisIsHorizontal(delta) == Abs(delta[3]) < EPS

\* t = (target_height_model_units - axis_start[2]) / delta[2]
AxisParameter(height, axis_start, delta) ==
    RatDiv(RatSub(height, Rat(axis_start[3], 1)), Rat(delta[3], 1))

\* variant: the end points of the axis excluded (`t <= 0.0 or t >= 1.0`)
OutsideSpanExclusive(t) == ~RatLess(Rat(0, 1), t) \/ ~RatLess(t, Rat(1, 1))

\* the filter `t < 0.0 or t > 1.0` of compute_leg_placement
OutsideSpan(t) == RatLess(t, Rat(0, 1)) \/ RatLess(Rat(1, 1), t)

\* variant: the fallback taken along global_up instead of the world X axis
radial_direction_up_fallback(delta) == Cross(global_up, delta)

\* the radial direction before its normalisation
RadialDirection(delta) ==
    IF NormBelowEps(Cross(global_up, delta))
    THEN Cross(world_x, delta)
    ELSE Cross(global_up, delta)

\* center = axis_start + t * delta
CenterAtHeight(axis_start, delta, t) ==
    [k \in 1..3 |-> Reduced(RatAdd(Rat(axis_start[k], 1), RatMul(t, Rat(delta[k], 1))))]

\* radial_dir = normalize(radial_dir); the cross product with delta has the
\* direction of the cross product with direction = delta / |delta|
UnitRadial(delta) ==
    LET radial_dir == RadialDirection(delta)
    IN  [k \in 1..3 |-> Reduced(Rat(radial_dir[k], Norm(radial_dir)))]

\* variant: the mid-wall case left out
radial_offset_half_outer(outer_radius, inner_radius) ==
    IF outer_radius > 0 THEN Reduced(Rat(outer_radius, 2)) ELSE Rat(0, 1)

\* the if / elif / else giving radial_offset
radial_offset(outer_radius, inner_radius) ==
    IF outer_radius > 0 /\ inner_radius > 0 /\ inner_radius < outer_radius
    THEN Reduced(Rat(outer_radius + inner_radius, 2))
    ELSE IF outer_radius > 0 THEN Reduced(Rat(outer_radius, 2))
    ELSE Rat(0, 1)

\* insertion = center + radial_dir * radial_offset
insertion_point(center, radial_dir, offset) ==
    [k \in 1..3 |-> Reduced(RatAdd(center[k], RatMul(radial_dir[k], offset)))]

\* the body of the for loop of compute_leg_placement, from column i on:
\* acc is the candidate list so far; raised = TRUE stands for a ValueError
\* of normalize() leaving the loop
RECURSIVE ScanColumns(_, _, _, _, _)
ScanColumns(columns, geometry, height, i, acc) ==
    IF i > Len(columns) THEN [raised |-> FALSE, candidates |-> acc]
    ELSE
        LET column == columns[i]
            axis == get_column_axis_points(geometry[column])
            delta == Sub(axis.end, axis.start)
        IN  IF ~axis.ok THEN ScanColumns(columns, geometry, height, i + 1, acc)
            ELSE IF AxisIsHorizontal(delta)
                THEN ScanColumns(columns, geometry, height, i + 1, acc)
            ELSE IF OutsideSpan(AxisParameter(height, axis.start, delta))
                THEN ScanColumns(columns, geometry, height, i + 1, acc)
            ELSE IF NormalizeRaises(delta) \/ NormalizeRaises(RadialDirection(delta))
                THEN [raised |-> TRUE, candidates |-> acc]
            ELSE ScanColumns(columns, geometry, height, i + 1,
                    LET t == AxisParameter(height, axis.start, delta)
                        center == CenterAtHeight(axis.start, delta, t)
                        radii == get_column_profile_info(geometry[column])
                        offset == radial_offset(radii.outer, radii.inner)
                    IN  Append(acc, [leg |-> column,
                                     axis_start |-> axis.start,
                                     axis_end |-> axis.end,
                                     center_at_height |-> center,
                                     insertion_point |->
                                         insertion_point(center, UnitRadial(delta), offset),
                                     radial_offset |-> offset]))

\* leg_index < 0 or leg_index >= len(candidates)
IndexOutOfRange(leg_index, count) == leg_index < 0 \/ leg_index >= count

\* compute_leg_placement(segment_model, target_height_model_units, leg_index):
\* status "ok" with the selected candidate, or the ValueError raised
compute_leg_placement(model, geometry, height, leg_index) ==
    LET scan == ScanColumns(by_type(model, "IfcColumn"), geometry, height, 1, <<>>)
    IN  IF scan.raised
        THEN [status |-> "degenerate", candidates |-> scan.candidates, selected |-> Null]
        ELSE IF scan.candidates = <<>>
        THEN [status |-> "no_candidate", candidates |-> <<>>, selected |-> Null]
        ELSE IF IndexOutOfRange(leg_index, Len(scan.candidates))
        THEN [status |-> "bad_index", candidates |-> scan.candidates, selected |-> Null]
        ELSE [status |-> "ok", candidates |-> scan.candidates,
              selected |-> leg_index + 1]

----------------------------------------------------------------------------
(* Frame of the inserted element *)

MatVec(m, v) == <<Dot(m[1], v), Dot(m[2], v), Dot(m[3], v)>>

\* abs(dot(normalize(x), normalize(z))) > 0.999, on the squares
NearlyParallel(x, z) ==
    1000000 * Dot(x, z) * Dot(x, z) > 998001 * Dot(x, x) * Dot(z, z)

\* create_axis_placement(...) raises ValueError
create_axis_placement_raises(rotation_inverse, x_world, z_world) ==
    LET x_local == MatVec(rotation_inverse, x_world)
        z_local == MatVec(rotation_inverse, z_world)
    IN  \/ NormalizeRaises(x_local)
        \/ NormalizeRaises(z_local)
        \/ NearlyParallel(x_local, z_local)

\* azimuth_x_world for the azimuths tried (cos, sin of 0 and 90 degrees)
azimuth_x_world(azimuth_deg) ==
    IF azimuth_deg = 0 THEN <<1, 0, 0>> ELSE <<0, 1, 0>>

----------------------------------------------------------------------------
(* Object graph migrator: ifcopenshell.util.schema.Migrator *)

\* migrated_ids is a dict kept in insertion order: a sequence of pairs
IdsHas(ids, source) == \E i \in 1..Len(ids) : ids[i].source = source
IdsGet(ids, source) ==
    ids[CHOOSE i \in 1..Len(ids) : ids[i].source = source].target
IdsPut(ids, source, target) ==
    IF IdsHas(ids, source)
    THEN [i \in 1..Len(ids) |->
            IF ids[i].source = source
            THEN [source |-> source, target |-> target] ELSE ids[i]]
    ELSE Append(ids, [source |-> source, target |-> target])
\* migrated_ids.values()
IdsValues(ids) == [i \in 1..Len(ids) |-> ids[i].target]

\* file.create_entity(...): the model with the entity added under a fresh id
create_entity(model, entity) == Put(model, FreshId(model), entity)

\* Migrator.migrate(element, new_file) on the state
\* st = [model, ids, ok, out]: the target model, migrated_ids, ok = FALSE once
\* a class is not supported by the target schema, out the clone returned.
\* The clone is created first, then its attributes are migrated in schema
\* order, scalars (GlobalId) copied by value; the pair is recorded last.
RECURSIVE Migrate(_, _, _)
RECURSIVE MigrateSingles(_, _, _, _, _)
RECURSIVE MigrateList(_, _, _, _, _)

MigrateSingles(src, st, e, n, i) ==
    IF i > Len(SingleRefs) THEN st
    ELSE LET a == SingleRefs[i]
         IN  IF src[e][a] = Null THEN MigrateSingles(src, st, e, n, i + 1)
             ELSE LET r == Migrate(src, st, src[e][a])
                  IN  IF ~r.ok THEN r
                      ELSE MigrateSingles(src,
                              [r EXCEPT !.model[n][a] = r.out], e, n, i + 1)

MigrateList(src, st, e, n, i) ==
    IF i > Len(src[e].Related) \/ ~st.ok THEN st
    ELSE LET r == Migrate(src, st, src[e].Related[i])
         IN  IF ~r.ok THEN r
             ELSE MigrateList(src,
                     [r EXCEPT !.model[n].Related = Append(@, r.out)], e, n, i + 1)

Migrate(src, st, e) ==
    IF IdsHas(st.ids, e) /\ IdsGet(st.ids, e) \in DOMAIN st.model
    THEN [st EXCEPT !.out = IdsGet(st.ids, e)]
    ELSE IF src[e].is_a \notin TargetSchema
    THEN [st EXCEPT !.ok = FALSE, !.out = Null]
    ELSE LET n == FreshId(st.model)
             created == [st EXCEPT !.model = Put(st.model, n,
                            [Blank EXCEPT !.is_a = src[e].is_a,
                                          !.GlobalId = src[e].GlobalId,
                                          !.PredefinedType = src[e].PredefinedType])]
             done == MigrateList(src, MigrateSingles(src, created, e, n, 1), e, n, 1)
         IN  IF done.ok
             THEN [done EXCEPT !.ids = IdsPut(done.ids, e, n), !.out = n]
             ELSE done

----------------------------------------------------------------------------
(* Relationship rewirer *)

\* find_source_antenna(antenna_model): Null stands for the ValueError
find_source_antenna(model) ==
    LET antennas == by_type(model, "IfcCommunicationsAppliance")
        tagged == {i \in 1..Len(antennas) :
                     model[antennas[i]].PredefinedType = "ANTENNA"}
    IN  IF antennas = <<>> THEN Null
        ELSE IF tagged # {} THEN antennas[Min(tagged)]
        ELSE antennas[1]

\* variant: the branch `elif source_related.is_a("IfcTypeObject")` left out
related_objects_antenna_only(src, st, related, source, target, i) ==
    IF ~st.ok THEN st
    ELSE [st EXCEPT !.out = IF source \in Range(related) THEN <<target>> ELSE <<>>]

\* the loop over relation.RelatedObjects of the material branch, from i on:
\* st.out collects related_objects
RECURSIVE RelatedObjectsOfClone(_, _, _, _, _, _)
RelatedObjectsOfClone(src, st, related, source, target, i) ==
    IF i > Len(related) \/ ~st.ok THEN st
    ELSE IF related[i] = source
    THEN RelatedObjectsOfClone(src, [st EXCEPT !.out = Append(@, target)],
                               related, source, target, i + 1)
    ELSE IF IsA(src[related[i]], "IfcTypeObject")
    THEN LET r == Migrate(src, [st EXCEPT !.out = Null], related[i])
         IN  IF ~r.ok THEN r
             ELSE RelatedObjectsOfClone(src,
                     [r EXCEPT !.out = Append(st.out, r.out)],
                     related, source, target, i + 1)
    ELSE RelatedObjectsOfClone(src, st, related, source, target, i + 1)

\* variant: the argument OwnerHistory=owner_history left out
relation_without_history(class, guid, owner_history, relating, related) ==
    [Blank EXCEPT !.is_a = class, !.GlobalId = guid,
                  !.Relating = relating, !.Related = related]

\* a relationship entity as copy_inverse_relations creates it
NewRelation(class, guid, owner_history, relating, related) ==
    [Blank EXCEPT !.is_a = class, !.GlobalId = guid,
                  !.OwnerHistory = owner_history,
                  !.Relating = relating, !.Related = related]

\* variant: a new Migrator() for every relation
NewMigratorState(w) ==
    [model |-> w.model, ids |-> <<>>, ok |-> TRUE, out |-> Null]

\* the migrator argument of copy_inverse_relations as each branch uses it:
\* the one session of main(), with the pairs recorded so far
MigratorState(w) ==
    [model |-> w.model, ids |-> w.ids, ok |-> TRUE, out |-> Null]

\* variant: a fourth branch re-creating the spatial containment of the donor
copy_relation_and_containment(src, w, relation, source, target, owner_history) ==
    LET rel == src[relation]
        st == MigratorState(w)
    IN
    IF IsA(rel, "IfcRelDefinesByType") THEN
        LET cached == rel.Relating \in DOMAIN w.cache
            r == IF cached THEN [st EXCEPT !.out = w.cache[rel.Relating]]
                 ELSE Migrate(src, st, rel.Relating)
        IN  IF ~r.ok THEN [w EXCEPT !.model = r.model, !.ids = r.ids, !.ok = FALSE]
            ELSE [model |-> create_entity(r.model,
                                NewRelation("IfcRelDefinesByType", w.guid,
                                            owner_history, r.out, <<target>>)),
                  ids |-> r.ids, ok |-> TRUE,
                  cache |-> Put(w.cache, rel.Relating, r.out),
                  guid |-> w.guid + 1]
    ELSE IF IsA(rel, "IfcRelDefinesByProperties") THEN
        LET r == Migrate(src, st, rel.Relating)
        IN  IF ~r.ok THEN [w EXCEPT !.model = r.model, !.ids = r.ids, !.ok = FALSE]
            ELSE [w EXCEPT !.model = create_entity(r.model,
                                NewRelation("IfcRelDefinesByProperties", w.guid,
                                            owner_history, r.out, <<target>>)),
                           !.ids = r.ids, !.guid = w.guid + 1]
    ELSE IF IsA(rel, "IfcRelAssociatesMaterial") THEN
        LET m == Migrate(src, st, rel.Relating)
            r == RelatedObjectsOfClone(src, [m EXCEPT !.out = <<>>],
                                       rel.Related, source, target, 1)
        IN  IF ~m.ok THEN [w EXCEPT !.model = m.model, !.ids = m.ids, !.ok = FALSE]
            ELSE IF ~r.ok THEN [w EXCEPT !.model = r.model, !.ids = r.ids, !.ok = FALSE]
            ELSE IF r.out = <<>> THEN [w EXCEPT !.model = r.model, !.ids = r.ids]
            ELSE [w EXCEPT !.model = create_entity(r.model,
                                NewRelation("IfcRelAssociatesMaterial", w.guid,
                                            owner_history, m.out, r.out)),
                           !.ids = r.ids, !.guid = w.guid + 1]
    ELSE IF IsA(rel, "IfcRelContainedInSpatialStructure") THEN
        LET r == Migrate(src, st, rel.Relating)
        IN  IF ~r.ok THEN [w EXCEPT !.model = r.model, !.ids = r.ids, !.ok = FALSE]
            ELSE [w EXCEPT !.model = create_entity(r.model,
                                NewRelation("IfcRelContainedInSpatialStructure", w.guid,
                                            owner_history, r.out, <<target>>)),
                           !.ids = r.ids, !.guid = w.guid + 1]
    ELSE w

\* one iteration of the loop of copy_inverse_relations, for `relation`, on
\* w = [model, ids, ok, cache, guid]: cache is migrated_type_cache (a
\* function from source type id to clone), guid the next unused identifier
copy_relation(src, w, relation, source, target, owner_history) ==
    LET rel == src[relation]
        st == MigratorState(w)
    IN
    IF IsA(rel, "IfcRelDefinesByType") THEN
        LET cached == rel.Relating \in DOMAIN w.cache
            r == IF cached THEN [st EXCEPT !.out = w.cache[rel.Relating]]
                 ELSE Migrate(src, st, rel.Relating)
        IN  IF ~r.ok THEN [w EXCEPT !.model = r.model, !.ids = r.ids, !.ok = FALSE]
            ELSE [model |-> create_entity(r.model,
                                NewRelation("IfcRelDefinesByType", w.guid,
                                            owner_history, r.out, <<target>>)),
                  ids |-> r.ids, ok |-> TRUE,
                  cache |-> Put(w.cache, rel.Relating, r.out),
                  guid |-> w.guid + 1]
    ELSE IF IsA(rel, "IfcRelDefinesByProperties") THEN
        LET r == Migrate(src, st, rel.Relating)
        IN  IF ~r.ok THEN [w EXCEPT !.model = r.model, !.ids = r.ids, !.ok = FALSE]
            ELSE [w EXCEPT !.model = create_entity(r.model,
                                NewRelation("IfcRelDefinesByProperties", w.guid,
                                            owner_history, r.out, <<target>>)),
                           !.ids = r.ids, !.guid = w.guid + 1]
    ELSE IF IsA(rel, "IfcRelAssociatesMaterial") THEN
        LET m == Migrate(src, st, rel.Relating)
            r == RelatedObjectsOfClone(src, [m EXCEPT !.out = <<>>],
                                       rel.Related, source, target, 1)
        IN  IF ~m.ok THEN [w EXCEPT !.model = m.model, !.ids = m.ids, !.ok = FALSE]
            ELSE IF ~r.ok THEN [w EXCEPT !.model = r.model, !.ids = r.ids, !.ok = FALSE]
            ELSE IF r.out = <<>> THEN [w EXCEPT !.model = r.model, !.ids = r.ids]
            ELSE [w EXCEPT !.model = create_entity(r.model,
                                NewRelation("IfcRelAssociatesMaterial", w.guid,
                                            owner_history, m.out, r.out)),
                           !.ids = r.ids, !.guid = w.guid + 1]
    ELSE w

\* variant: the product is appended without the test `product not in current`
attach_appending_always(model, guid, container, product) ==
    IF ContainsElements(model, container) # <<>>
    THEN LET relation == ContainsElements(model, container)[1]
         IN  [model |-> [model EXCEPT ![relation].Related = Append(@, product)],
              guid |-> guid]
    ELSE [model |-> create_entity(model,
                        NewRelation("IfcRelContainedInSpatialStructure", guid,
                                    first_owner_history(model), container, <<product>>)),
          guid |-> guid + 1]

\* variant: the related elements are replaced by the product alone
attach_replacing_list(model, guid, container, product) ==
    IF ContainsElements(model, container) # <<>>
    THEN LET relation == ContainsElements(model, container)[1]
         IN  [model |-> [model EXCEPT ![relation].Related = <<product>>],
              guid |-> guid]
    ELSE [model |-> create_entity(model,
                        NewRelation("IfcRelContainedInSpatialStructure", guid,
                                    first_owner_history(model), container, <<product>>)),
          guid |-> guid + 1]

\* attach_to_container(model, container, product) on [model, guid]
attach_to_container(model, guid, container, product) ==
    IF ContainsElements(model, container) # <<>>
    THEN LET relation == ContainsElements(model, container)[1]
             current == model[relation].Related
         IN  IF product \notin Range(current)
             THEN [model |-> [model EXCEPT ![relation].Related = Append(current, product)],
                   guid |-> guid]
             ELSE [model |-> model, guid |-> guid]
    ELSE LET owner_history ==
                 IF first_owner_history(model) # Null
                 THEN first_owner_history(model)
                 ELSE model[product].OwnerHistory
         IN  [model |-> create_entity(model,
                            NewRelation("IfcRelContainedInSpatialStructure", guid,
                                        owner_history, container, <<product>>)),
              guid |-> guid + 1]

----------------------------------------------------------------------------
(* Identifier regeneration and metadata harmoniser *)

\* the loop of refresh_migrated_root_guids from position i of
\* migrated_ids.values() on
RECURSIVE RefreshFrom(_, _, _, _)
RefreshFrom(model, values, guid, i) ==
    IF i > Len(values) THEN [model |-> model, guid |-> guid]
    ELSE IF values[i] \in DOMAIN model /\ IsA(model[values[i]], "IfcRoot")
    THEN RefreshFrom([model EXCEPT ![values[i]].GlobalId = guid],
                     values, guid + 1, i + 1)
    ELSE RefreshFrom(model, values, guid, i + 1)

\* variant: the identifiers copied from the donor are kept
refresh_nothing(model, ids, guid) == [model |-> model, guid |-> guid]

\* refresh_migrated_root_guids(target_model, migrator) on [model, guid]
refresh_migrated_root_guids(model, ids, guid) ==
    RefreshFrom(model, IdsValues(ids), guid, 1)

\* variant: the test `if model.get_inverse(entity): return` left out
remove_unconditionally(model, entity) ==
    IF entity = Null THEN model ELSE Drop(model, entity)

\* remove_if_orphan(model, entity)
remove_if_orphan(model, entity) ==
    IF entity = Null THEN model
    ELSE IF get_inverse(model, entity) # <<>> THEN model
    ELSE Drop(model, entity)

\* harmonize_migrated_owner_history: the list migrated_entities
MigratedEntities(model, ids) ==
    SelectSeq(IdsValues(ids), LAMBDA t : t \in DOMAIN model)

\* variant: the assignment entity.OwnerHistory = target_owner_history made
\* inside the `if owner_history and owner_history != target_owner_history`
RECURSIVE RetargetIfSet(_, _, _, _, _)
RetargetIfSet(model, entities, target, i, histories) ==
    IF i > Len(entities) THEN [model |-> model, histories |-> histories]
    ELSE LET id == entities[i]
             e == model[id]
             differs == /\ IsA(e, "IfcRoot")
                        /\ e.OwnerHistory # Null
                        /\ e.OwnerHistory # target
             h1 == IF IsA(e, "IfcOwnerHistory") THEN histories \cup {id}
                   ELSE histories
             h2 == IF differs THEN h1 \cup {e.OwnerHistory} ELSE h1
         IN  RetargetIfSet(IF differs
                           THEN [model EXCEPT ![id].OwnerHistory = target]
                           ELSE model,
                           entities, target, i + 1, h2)

\* harmonize_migrated_owner_history: the first loop from position i on,
\* giving the model and the set migrated_owner_histories
RECURSIVE Retarget(_, _, _, _, _)
Retarget(model, entities, target, i, histories) ==
    IF i > Len(entities) THEN [model |-> model, histories |-> histories]
    ELSE LET id == entities[i]
             e == model[id]
             h1 == IF IsA(e, "IfcOwnerHistory") THEN histories \cup {id}
                   ELSE histories
             h2 == IF /\ IsA(e, "IfcRoot")
                      /\ e.OwnerHistory # Null
                      /\ e.OwnerHistory # target
                   THEN h1 \cup {e.OwnerHistory} ELSE h1
         IN  Retarget(IF IsA(e, "IfcRoot")
                      THEN [model EXCEPT ![id].OwnerHistory = target]
                      ELSE model,
                      entities, target, i + 1, h2)

\* variant: the guard left out
NeverTargetRecord(owner_history, target) == FALSE

\* the guard `owner_history == target_owner_history: continue`
IsTargetRecord(owner_history, target) == owner_history = target

\* harmonize_migrated_owner_history: the second loop, visiting the set
\* migrated_owner_histories in the order `order`, from position i on
RECURSIVE RemoveObsolete(_, _, _, _)
RemoveObsolete(model, order, target, i) ==
    IF i > Len(order) THEN model
    ELSE LET owner_history == order[i]
         IN  IF IsTargetRecord(owner_history, target)
             THEN RemoveObsolete(model, order, target, i + 1)
             ELSE IF get_inverse(model, owner_history) # <<>>
             THEN RemoveObsolete(model, order, target, i + 1)
             ELSE LET owning_application == model[owner_history].OwningApplication
                      owning_user == model[owner_history].OwningUser
                      person == IF owning_user # Null
                                THEN model[owning_user].ThePerson ELSE Null
                      organization == IF owning_user # Null
                                      THEN model[owning_user].TheOrganization
                                      ELSE Null
                      m0 == Drop(model, owner_history)
                      m1 == remove_if_orphan(m0, owning_application)
                      m2 == remove_if_orphan(m1, owning_user)
                      m3 == remove_if_orphan(m2, person)
                      m4 == remove_if_orphan(m3, organization)
                  IN  RemoveObsolete(m4, order, target, i + 1)

\* the set migrated_owner_histories of a call of harmonize
MigratedOwnerHistories(model, ids, target) ==
    Retarget(model, MigratedEntities(model, ids), target, 1, {}).histories

\* the orders in which a Python set may be iterated
Orderings(S) ==
    {f \in [1..Cardinality(S) -> S] : \A i, j \in DOMAIN f : f[i] = f[j] => i = j}

\* harmonize_migrated_owner_history(target_model, migrator, target_owner_history),
\* the set migrated_owner_histories being iterated in the order `order`
harmonize_migrated_owner_history(model, ids, target, order) ==
    IF target = Null THEN model
    ELSE RemoveObsolete(
            Retarget(model, MigratedEntities(model, ids), target, 1, {}).model,
            order, target, 1)

----------------------------------------------------------------------------
(* The files read *)

Entity(class) == [Blank EXCEPT !.is_a = class]
Root(class, guid, owner_history) ==
    [Blank EXCEPT !.is_a = class, !.GlobalId = guid, !.OwnerHistory = owner_history]

\* an owner history with its user, person, application and organisation
OwnerHistoryChain(history, user, person, application, organisation) ==
    (history :> [Entity("IfcOwnerHistory") EXCEPT
                    !.OwningUser = user, !.OwningApplication = application])
    @@ (user :> [Entity("IfcPersonAndOrganization") EXCEPT
                    !.ThePerson = person, !.TheOrganization = organisation])
    @@ (person :> Entity("IfcPerson"))
    @@ (application :> [Entity("IfcApplication") EXCEPT
                    !.TheOrganization = organisation])
    @@ (organisation :> Entity("IfcOrganization"))

\* ids of the entities of a segment file
SegmentIds == [Storey |-> 6, FirstColumn |-> 8, SecondColumn |-> 9, FirstSibling |-> 11]
Storey == SegmentIds.Storey
FirstColumn == SegmentIds.FirstColumn
SecondColumn == SegmentIds.SecondColumn
FirstSibling == SegmentIds.FirstSibling

\* A segment file: a storey holding two columns.  has_history: the file has
\* an owner history; contained: the columns its containment relation holds;
\* siblings: how many other elements the relation holds before them.
SegmentFile(has_history, contained, siblings) ==
    LET history == IF has_history THEN 1 ELSE Null
        others == [i \in 1..siblings |-> FirstSibling + i - 1]
        held == others \o contained
    IN  (IF has_history THEN OwnerHistoryChain(1, 2, 3, 4, 5) ELSE EmptyModel)
        @@ (Storey :> [Root("IfcBuildingStorey", 1, history) EXCEPT
                            !.ObjectPlacement = 7])
        @@ (7 :> Entity("IfcLocalPlacement"))
        @@ (FirstColumn :> Root("IfcColumn", 2, history))
        @@ (SecondColumn :> Root("IfcColumn", 3, history))
        @@ (IF held = <<>> THEN EmptyModel
            ELSE 10 :> [Root("IfcRelContainedInSpatialStructure", 4, history)
                            EXCEPT !.Relating = Storey, !.Related = held])
        @@ [i \in Range(others) |-> Root("IfcProxy", i, history)]

SegmentFiles ==
    {SegmentFile(h, c, n) :
        h \in BOOLEAN,
        c \in {<<FirstColumn, SecondColumn>>, <<FirstColumn>>, <<>>},
        n \in 0..MaxSiblings}

\* type-level geometry of a column
AxisMap(class, points) ==
    [RepresentationIdentifier |-> "Axis",
     Items |-> <<[is_a |-> class, Points |-> points]>>]
\* a closed 2-D polyline through the four points at distance r on the axes
Ring(r) ==
    [is_a |-> "IfcPolyline",
     Points |-> <<<<r, 0>>, <<0, r>>, <<0 - r, 0>>, <<0, 0 - r>>, <<r, 0>>>>]
\* a swept profile: OuterCurve and InnerCurves are <<>> when absent
Profile(outer, inner) ==
    [is_a |-> "IfcArbitraryProfileDefWithVoids", OuterCurve |-> outer, InnerCurves |-> inner]
Solid(profile) ==
    [is_a |-> "IfcExtrudedAreaSolid", Points |-> <<>>, SweptArea |-> profile]
BodyOf(items) == [RepresentationIdentifier |-> "Body", Items |-> items]
\* a tube of outer radius 4 and inner radius 2
BodyMap == BodyOf(<<Solid(Profile(<<Ring(4)>>, <<Ring(2), Ring(1)>>))>>)
Typed(maps) == [IsTypedBy |-> TRUE, RepresentationMaps |-> maps]

\* a vertical leg from z = 0 up to z = 2, its body listed before its axis
VerticalLeg == Typed(<<BodyMap, AxisMap("IfcPolyline", <<<<0, 0, 0>>, <<0, 0, 2>>>>)>>)
\* a leg running down from z = 3 to z = 1, as an indexed curve of three points
DescendingLeg ==
    Typed(<<AxisMap("IfcIndexedPolyCurve", <<<<1, 0, 3>>, <<1, 0, 2>>, <<1, 0, 1>>>>)>>)
\* an inclined leg from z = 1 to z = 3
InclinedLeg ==
    Typed(<<AxisMap("IfcPolyline", <<<<0, 0, 1>>, <<2, 0, 3>>>>),
            BodyOf(<<Solid(Profile(<<Ring(2)>>, <<>>))>>)>>)
\* a vertical leg from z = 0 to z = 60 with a solid section of radius 2
TallLeg ==
    Typed(<<AxisMap("IfcPolyline", <<<<0, 0, 0>>, <<0, 0, 60>>>>),
            BodyOf(<<Solid(Profile(<<Ring(2)>>, <<>>))>>)>>)
\* a vertical leg from z = 1 to z = 3 whose inner curve is as wide as the outer
ThickLeg ==
    Typed(<<AxisMap("IfcPolyline", <<<<1, 1, 1>>, <<1, 1, 3>>>>),
            BodyOf(<<Solid(Profile(<<Ring(3)>>, <<Ring(3)>>))>>)>>)
\* a vertical leg whose body holds no extruded solid
SolidlessLeg ==
    Typed(<<BodyOf(<<[is_a |-> "IfcFacetedBrep", Points |-> <<>>]>>),
            AxisMap("IfcPolyline", <<<<0, 0, 0>>, <<0, 0, 3>>>>)>>)
\* a horizontal member at z = 1
HorizontalMember == Typed(<<AxisMap("IfcPolyline", <<<<0, 0, 1>>, <<2, 0, 1>>>>)>>)
\* a 2-D axis: both points get z = 0
FlatAxisMember == Typed(<<AxisMap("IfcPolyline", <<<<0, 0>>, <<0, 2>>>>)>>)
\* a column without a type
UntypedColumn == [IsTypedBy |-> FALSE, RepresentationMaps |-> <<>>]
\* axis representations without a usable curve: no item, one point, a circle
NoAxisColumn ==
    Typed(<<[RepresentationIdentifier |-> "Axis", Items |-> <<>>],
            AxisMap("IfcPolyline", <<<<0, 0, 0>>>>),
            AxisMap("IfcCircle", <<<<0, 0, 0>>, <<0, 0, 2>>>>),
            BodyMap>>)

ColumnShapes ==
    {VerticalLeg, DescendingLeg, InclinedLeg, HorizontalMember,
     FlatAxisMember, UntypedColumn, NoAxisColumn}

\* the legs whose sections differ
ProfiledLegs ==
    {VerticalLeg, DescendingLeg, InclinedLeg, TallLeg, ThickLeg, SolidlessLeg}

\* the geometries tried by the runs of main()
SegmentGeometries ==
    {FirstColumn :> VerticalLeg @@ SecondColumn :> DescendingLeg,
     FirstColumn :> UntypedColumn @@ SecondColumn :> VerticalLeg,
     FirstColumn :> HorizontalMember @@ SecondColumn :> NoAxisColumn}

Identity3 == <<<<1, 0, 0>>, <<0, 1, 0>>, <<0, 0, 1>>>>
\* a sheared container frame: it maps world z almost onto world x
Sheared3 == <<<<1, 0, 30>>, <<0, 1, 0>>, <<0, 0, 1>>>>
ReferenceInverses == {Identity3, Sheared3}

\* calculate_unit_scale: metres, or half metres, per model unit
UnitScales == {Rat(1, 1), Rat(1, 2)}

\* ids of the antenna and of its type in an antenna file
AntennaIds == [Antenna |-> 7, AntennaType |-> 9]
Antenna == AntennaIds.Antenna
AntennaType == AntennaIds.AntennaType

\* An antenna file.  relations: the relationship entities it holds, among
\*   20, 21  IfcRelDefinesByType of the antenna by the one type
\*   22      IfcRelDefinesByProperties
\*   23      IfcRelAssociatesMaterial of <<another element, antenna, type>>
\*   24      IfcRelAssociatesMaterial of <<antenna>>, same material
\*   25      IfcRelContainedInSpatialStructure
\* type_history: the owner history of the type (1, or 13 sharing the
\* application, person and organisation of 1); antenna_history: the one of the
\* antenna (Null: none); shape: the class of the antenna's representation;
\* material: the class of the material; antenna_guid: the GlobalId of the
\* antenna (2 is also the GlobalId of a segment column)
AntennaRelations(relations) ==
    LET all ==
            (20 :> [Root("IfcRelDefinesByType", 23, 1) EXCEPT
                        !.Relating = AntennaType, !.Related = <<Antenna>>])
         @@ (21 :> [Root("IfcRelDefinesByType", 24, 1) EXCEPT
                        !.Relating = AntennaType, !.Related = <<Antenna>>])
         @@ (22 :> [Root("IfcRelDefinesByProperties", 25, 1) EXCEPT
                        !.Relating = 10, !.Related = <<Antenna>>])
         @@ (23 :> [Root("IfcRelAssociatesMaterial", 26, 1) EXCEPT
                        !.Relating = 12, !.Related = <<16, Antenna, AntennaType>>])
         @@ (24 :> [Root("IfcRelAssociatesMaterial", 27, 1) EXCEPT
                        !.Relating = 12, !.Related = <<Antenna>>])
         @@ (25 :> [Root("IfcRelContainedInSpatialStructure", 28, 1) EXCEPT
                        !.Relating = 15, !.Related = <<16, Antenna>>])
    IN  [r \in relations |-> all[r]]

AntennaFile(relations, type_history, antenna_history, shape, material, antenna_guid) ==
    OwnerHistoryChain(1, 2, 3, 4, 5)
    @@ (6 :> Entity("IfcLocalPlacement"))
    @@ (Antenna :> [Root("IfcCommunicationsAppliance", antenna_guid, antenna_history)
                EXCEPT !.ObjectPlacement = 6, !.Representation = 8,
                       !.PredefinedType = "ANTENNA"])
    @@ (8 :> Entity(shape))
    @@ (AntennaType :> Root("IfcCommunicationsApplianceType", 21, type_history))
    @@ (10 :> [Root("IfcPropertySet", 22, 1) EXCEPT !.Related = <<11>>])
    @@ (11 :> Entity("IfcPropertySingleValue"))
    @@ (12 :> Entity(material))
    @@ (13 :> [Entity("IfcOwnerHistory") EXCEPT
                    !.OwningUser = 14, !.OwningApplication = 4])
    @@ (14 :> [Entity("IfcPersonAndOrganization") EXCEPT
                    !.ThePerson = 3, !.TheOrganization = 5])
    @@ (15 :> Root("IfcBuildingStorey", 29, 1))
    @@ (16 :> Root("IfcProxy", 30, 1))
    @@ AntennaRelations(relations)

\* a file with a switch as first appliance and no antenna among them
NoAntennaFile ==
    OwnerHistoryChain(1, 2, 3, 4, 5) @@ (15 :> Root("IfcBuildingStorey", 29, 1))

AntennaFiles ==
    {AntennaFile({}, 1, 1, "IfcProductDefinitionShape", "IfcMaterial", 31),
     AntennaFile({20, 21, 22, 23, 24, 25}, 1, 1,
                 "IfcProductDefinitionShape", "IfcMaterial", 2),
     AntennaFile({20, 21, 22, 23, 24, 25}, 13, 1,
                 "IfcProductDefinitionShape", "IfcMaterial", 31),
     AntennaFile({23, 24}, 13, 1, "IfcProductDefinitionShape", "IfcMaterial", 2),
     AntennaFile({20, 23}, 13, Null, "IfcProductDefinitionShape", "IfcMaterial", 2),
     AntennaFile({22, 25}, 1, Null, "IfcProductDefinitionShape", "IfcMaterial", 31),
     AntennaFile({20, 22, 24}, 1, 1, "IfcTriangulatedFaceSet", "IfcMaterial", 2),
     AntennaFile({20, 22, 24}, 1, 1,
                 "IfcProductDefinitionShape", "IfcMaterialProfileSet", 2),
     NoAntennaFile}

\* the identifiers in use in a model
GuidsOf(model) == {model[i].GlobalId : i \in DOMAIN model} \ {0}

----------------------------------------------------------------------------
(* copy_inverse_relations and create_axis_placement as whole calls *)

RECURSIVE CopyFrom(_, _, _, _, _, _, _)
CopyFrom(src, w, rels, source, target, owner_history, i) ==
    IF i > Len(rels) \/ ~w.ok THEN w
    ELSE CopyFrom(src, copy_relation(src, w, rels[i], source, target, owner_history),
                  rels, source, target, owner_history, i + 1)

\* copy_inverse_relations(source_model, target_model, source_antenna,
\* target_antenna, migrator) giving [model, ids, ok, cache, guid]
copy_inverse_relations(src, model, ids, guid, source, target) ==
    LET owner_history ==
            IF first_owner_history(model) # Null
            THEN first_owner_history(model)
            ELSE model[target].OwnerHistory
    IN  CopyFrom(src,
                 [model |-> model, ids |-> ids, ok |-> TRUE,
                  cache |-> EmptyModel, guid |-> guid],
                 get_inverse(src, source), source, target, owner_history, 1)

\* the entities main() adds for the frame of the antenna: the point and the
\* two directions, the IfcAxis2Placement3D over them (Related) and the
\* IfcLocalPlacement (Relating = PlacementRelTo, Related = RelativePlacement),
\* which becomes the ObjectPlacement of the antenna
WithPlacement(model, container, antenna) ==
    LET location == FreshId(model)
        m1 == create_entity(model, Entity("IfcCartesianPoint"))
        axis == FreshId(m1)
        m2 == create_entity(m1, Entity("IfcDirection"))
        ref_direction == FreshId(m2)
        m3 == create_entity(m2, Entity("IfcDirection"))
        axis_placement == FreshId(m3)
        m4 == create_entity(m3, [Entity("IfcAxis2Placement3D") EXCEPT
                                    !.Related = <<location, axis, ref_direction>>])
        local == FreshId(m4)
        m5 == create_entity(m4, [Entity("IfcLocalPlacement") EXCEPT
                                    !.Relating = model[container].ObjectPlacement,
                                    !.Related = <<axis_placement>>])
    IN  [m5 EXCEPT ![antenna].ObjectPlacement = local]

----------------------------------------------------------------------------
(* main() *)

inputs == <<args, segment_file, column_geometry, reference_inverse, antenna_file>>
locals == <<unit_scale_to_si, candidates, leg_placement, target_container,
            source_antenna, target_antenna, target_owner_history>>

Init ==
    /\ pc = "start"
    /\ args \in [segment_exists : BOOLEAN, antenna_exists : BOOLEAN,
                 height_m : 0..MaxHeight, leg_index : -1..MaxLegIndex,
                 azimuth_deg : {0, 90}]
    /\ segment_file = EmptyModel
    /\ column_geometry = EmptyModel
    /\ reference_inverse = Identity3
    /\ antenna_file = EmptyModel
    /\ segment_model = EmptyModel
    /\ antenna_model = EmptyModel
    /\ unit_scale_to_si = Rat(1, 1)
    /\ candidates = <<>>
    /\ leg_placement = <<>>
    /\ target_container = Null
    /\ source_antenna = Null
    /\ target_antenna = Null
    /\ target_owner_history = Null
    /\ migrated_ids = <<>>
    /\ next_guid = 1
    /\ output_file = <<>>
    /\ exit_code = <<>>
    /\ prev_model = EmptyModel
    /\ calls = <<>>

\* `return 2`
Return2 == pc' = "exit" /\ exit_code' = <<2>>
\* an exception leaves main(): the interpreter exits with status 1
Raise == pc' = "raised" /\ exit_code' = <<1>>
Goto(label) == pc' = label /\ UNCHANGED exit_code

\* if not segment_path.exists(): return 2
CheckSegmentPath ==
    /\ pc = "start"
    /\ IF args.segment_exists THEN Goto("check_antenna") ELSE Return2
    /\ UNCHANGED <<inputs, locals, segment_model, antenna_model, migrated_ids,
                   next_guid, output_file, prev_model, calls>>

\* if not antenna_path.exists(): return 2
CheckAntennaPath ==
    /\ pc = "check_antenna"
    /\ IF args.antenna_exists THEN Goto("check_height") ELSE Return2
    /\ UNCHANGED <<inputs, locals, segment_model, antenna_model, migrated_ids,
                   next_guid, output_file, prev_model, calls>>

\* if args.height_m <= 0: return 2
CheckHeight ==
    /\ pc = "check_height"
    /\ IF args.height_m <= 0 THEN Return2 ELSE Goto("open_segment")
    /\ UNCHANGED <<inputs, locals, segment_model, antenna_model, migrated_ids,
                   next_guid, output_file, prev_model, calls>>

\* segment_model = ifcopenshell.open(segment_path): the content of the file is
\* drawn when it is read
OpenSegment ==
    /\ pc = "open_segment"
    /\ \E file \in SegmentFiles, geometry \in SegmentGeometries,
          inverse \in ReferenceInverses :
            /\ segment_file' = file
            /\ column_geometry' = geometry
            /\ reference_inverse' = inverse
            /\ segment_model' = file
            /\ prev_model' = file
    /\ Goto("open_antenna")
    /\ UNCHANGED <<args, antenna_file, locals, antenna_model, migrated_ids,
                   next_guid, output_file, calls>>

\* antenna_model = ifcopenshell.open(antenna_path); identifiers generated
\* from here on are in use in neither model
OpenAntenna ==
    /\ pc = "open_antenna"
    /\ \E file \in AntennaFiles :
            /\ antenna_file' = file
            /\ antenna_model' = file
            /\ next_guid' = Max(GuidsOf(file) \cup GuidsOf(segment_model)) + 1
    /\ Goto("solve")
    /\ UNCHANGED <<args, segment_file, column_geometry, reference_inverse,
                   locals, segment_model, migrated_ids, output_file,
                   prev_model, calls>>

\* target_height_units = args.height_m / unit_scale_to_si
TargetHeightUnits(height_m, scale) == RatDiv(Rat(height_m, 1), scale)

\* unit scale, then leg_placement = compute_leg_placement(...)
ComputeLegPlacement ==
    /\ pc = "solve"
    /\ \E scale \in UnitScales :
        LET solved == compute_leg_placement(segment_model, column_geometry,
                          TargetHeightUnits(args.height_m, scale), args.leg_index)
        IN  /\ unit_scale_to_si' = scale
            /\ candidates' = solved.candidates
            /\ IF solved.status = "ok"
               THEN /\ leg_placement' = <<solved.candidates[solved.selected]>>
                    /\ Goto("check_container")
               ELSE /\ leg_placement' = <<>>
                    /\ Raise
    /\ calls' = Append(calls, "compute_leg_placement")
    /\ UNCHANGED <<inputs, target_container, source_antenna, target_antenna,
                   target_owner_history, segment_model, antenna_model,
                   migrated_ids, next_guid, output_file, prev_model>>

\* variant: the containment check made after the migration of the antenna
CheckContainerAfterMigrate ==
    /\ pc = "check_container"
    /\ LET structure == ContainedInStructure(segment_model, leg_placement[1].leg)
           source == find_source_antenna(antenna_model)
       IN  IF structure = <<>>
           THEN /\ Return2
                /\ UNCHANGED target_container
                /\ segment_model' =
                       IF source = Null THEN segment_model
                       ELSE Migrate(antenna_model,
                                    [model |-> segment_model, ids |-> <<>>,
                                     ok |-> TRUE, out |-> Null], source).model
           ELSE /\ target_container' = segment_model[structure[1]].Relating
                /\ Goto("migrate")
                /\ UNCHANGED segment_model
    /\ UNCHANGED <<inputs, unit_scale_to_si, candidates, leg_placement,
                   source_antenna, target_antenna, target_owner_history,
                   antenna_model, migrated_ids, next_guid,
                   output_file, prev_model, calls>>

\* if not leg_placement.leg.ContainedInStructure: return 2
CheckContainer ==
    /\ pc = "check_container"
    /\ LET structure == ContainedInStructure(segment_model, leg_placement[1].leg)
       IN  IF structure = <<>>
           THEN Return2 /\ UNCHANGED target_container
           ELSE /\ target_container' = segment_model[structure[1]].Relating
                /\ Goto("migrate")
    /\ UNCHANGED <<inputs, unit_scale_to_si, candidates, leg_placement,
                   source_antenna, target_antenna, target_owner_history,
                   segment_model, antenna_model, migrated_ids, next_guid,
                   output_file, prev_model, calls>>

\* find_source_antenna, Migrator(), migrator.migrate(source_antenna,
\* segment_model), first_owner_history and its assignment to the clone
MigrateAntenna ==
    /\ pc = "migrate"
    /\ prev_model' = segment_model
    /\ calls' = Append(calls, "migrate")
    /\ LET source == find_source_antenna(antenna_model)
           r == Migrate(antenna_model,
                        [model |-> segment_model, ids |-> <<>>,
                         ok |-> TRUE, out |-> Null], source)
           history == first_owner_history(r.model)
       IN  IF source = Null
           THEN /\ Raise
                /\ UNCHANGED <<source_antenna, target_antenna,
                               target_owner_history, segment_model, migrated_ids>>
           ELSE /\ source_antenna' = source
                /\ migrated_ids' = r.ids
                /\ IF ~r.ok
                   THEN /\ Raise
                        /\ segment_model' = r.model
                        /\ UNCHANGED <<target_antenna, target_owner_history>>
                   ELSE /\ Goto("placement")
                        /\ target_antenna' = r.out
                        /\ target_owner_history' = history
                        /\ segment_model' =
                               IF history # Null
                               THEN [r.model EXCEPT ![r.out].OwnerHistory = history]
                               ELSE r.model
    /\ UNCHANGED <<inputs, unit_scale_to_si, candidates, leg_placement,
                   target_container, antenna_model, next_guid, output_file>>

\* create_axis_placement(...) and the IfcLocalPlacement of the antenna
CreatePlacement ==
    /\ pc = "placement"
    /\ prev_model' = segment_model
    /\ calls' = Append(calls, "create_axis_placement")
    /\ LET rotation_inverse ==
               IF segment_model[target_container].ObjectPlacement # Null
               THEN reference_inverse ELSE Identity3
       IN  IF create_axis_placement_raises(rotation_inverse,
                   azimuth_x_world(args.azimuth_deg), global_up)
           THEN Raise /\ UNCHANGED segment_model
           ELSE /\ Goto("copy")
                /\ segment_model' =
                       WithPlacement(segment_model, target_container, target_antenna)
    /\ UNCHANGED <<inputs, locals, antenna_model, migrated_ids, next_guid,
                   output_file>>

\* copy_inverse_relations(...)
CopyInverseRelations ==
    /\ pc = "copy"
    /\ prev_model' = segment_model
    /\ calls' = Append(calls, "copy_inverse_relations")
    /\ LET w == copy_inverse_relations(antenna_model, segment_model, migrated_ids,
                                       next_guid, source_antenna, target_antenna)
       IN  /\ segment_model' = w.model
           /\ migrated_ids' = w.ids
           /\ next_guid' = w.guid
           /\ IF w.ok THEN Goto("attach") ELSE Raise
    /\ UNCHANGED <<inputs, locals, antenna_model, output_file>>

\* attach_to_container(segment_model, target_container, target_antenna)
AttachToContainer ==
    /\ pc = "attach"
    /\ prev_model' = segment_model
    /\ calls' = Append(calls, "attach_to_container")
    /\ LET a == attach_to_container(segment_model, next_guid,
                                    target_container, target_antenna)
       IN  segment_model' = a.model /\ next_guid' = a.guid
    /\ Goto("refresh")
    /\ UNCHANGED <<inputs, locals, antenna_model, migrated_ids, output_file>>

\* refresh_migrated_root_guids(segment_model, migrator)
RefreshGuids ==
    /\ pc = "refresh"
    /\ prev_model' = segment_model
    /\ calls' = Append(calls, "refresh_migrated_root_guids")
    /\ LET r == refresh_migrated_root_guids(segment_model, migrated_ids, next_guid)
       IN  segment_model' = r.model /\ next_guid' = r.guid
    /\ Goto("harmonize")
    /\ UNCHANGED <<inputs, locals, antenna_model, migrated_ids, output_file>>

\* harmonize_migrated_owner_history(segment_model, migrator, target_owner_history)
Harmonize ==
    /\ pc = "harmonize"
    /\ prev_model' = segment_model
    /\ calls' = Append(calls, "harmonize_migrated_owner_history")
    /\ \E order \in Orderings(MigratedOwnerHistories(segment_model, migrated_ids,
                                                     target_owner_history)) :
            segment_model' = harmonize_migrated_owner_history(
                                 segment_model, migrated_ids,
                                 target_owner_history, order)
    /\ Goto("antenna_guid")
    /\ UNCHANGED <<inputs, locals, antenna_model, migrated_ids, next_guid,
                   output_file>>

\* target_antenna.GlobalId = ifcopenshell.guid.new()
RegenerateAntennaGuid ==
    /\ pc = "antenna_guid"
    /\ prev_model' = segment_model
    /\ segment_model' = [segment_model EXCEPT ![target_antenna].GlobalId = next_guid]
    /\ next_guid' = next_guid + 1
    /\ Goto("write")
    /\ UNCHANGED <<inputs, locals, antenna_model, migrated_ids, output_file, calls>>

\* variant: the model written before the harmonisation
WriteBeforeHarmonize ==
    /\ pc = "harmonize"
    /\ output_file' = <<segment_model>>
    /\ calls' = Append(calls, "write")
    /\ pc' = "done"
    /\ exit_code' = <<0>>
    /\ UNCHANGED <<inputs, locals, segment_model, antenna_model, migrated_ids,
                   next_guid, prev_model>>

\* segment_model.write(output_path); ...; return 0
WriteOutput ==
    /\ pc = "write"
    /\ output_file' = <<segment_model>>
    /\ calls' = Append(calls, "write")
    /\ pc' = "done"
    /\ exit_code' = <<0>>
    /\ UNCHANGED <<inputs, locals, segment_model, antenna_model, migrated_ids,
                   next_guid, prev_model>>

Next ==
    \/ CheckSegmentPath
    \/ CheckAntennaPath
    \/ CheckHeight
    \/ OpenSegment
    \/ OpenAntenna
    \/ ComputeLegPlacement
    \/ CheckContainer
    \/ MigrateAntenna
    \/ CreatePlacement
    \/ CopyInverseRelations
    \/ AttachToContainer
    \/ RefreshGuids
    \/ Harmonize
    \/ RegenerateAntennaGuid
    \/ WriteOutput

Spec == Init /\ [][Next]_vars

----------------------------------------------------------------------------
(* compute_leg_placement alone, on drawn geometry *)

\* a model holding MaxColumns columns
ColumnsModel == [i \in 1..MaxColumns |-> Root("IfcColumn", i, Null)]

InitSolver ==
    /\ pc = "solver"
    /\ args \in [segment_exists : {TRUE}, antenna_exists : {TRUE},
                 height_m : 0..MaxHeight, leg_index : -1..MaxLegIndex,
                 azimuth_deg : {0}]
    /\ segment_file = ColumnsModel
    /\ column_geometry \in [1..MaxColumns -> ColumnShapes]
    /\ reference_inverse = Identity3
    /\ antenna_file = EmptyModel
    /\ segment_model = ColumnsModel
    /\ antenna_model = EmptyModel
    /\ unit_scale_to_si \in UnitScales
    /\ candidates = <<>>
    /\ leg_placement = <<>>
    /\ target_container = Null
    /\ source_antenna = Null
    /\ target_antenna = Null
    /\ target_owner_history = Null
    /\ migrated_ids = <<>>
    /\ next_guid = 1
    /\ output_file = <<>>
    /\ exit_code = <<>>
    /\ prev_model = ColumnsModel
    /\ calls = <<>>

\* leg_placement = compute_leg_placement(segment_model, target_height_units,
\* leg_index); calls records how it ended
SolveLeg ==
    /\ pc = "solver"
    /\ LET solved == compute_leg_placement(segment_model, column_geometry,
                          TargetHeightUnits(args.height_m, unit_scale_to_si),
                          args.leg_index)
       IN  /\ candidates' = solved.candidates
           /\ calls' = <<solved.status>>
           /\ IF solved.status = "ok"
              THEN /\ leg_placement' = <<solved.candidates[solved.selected]>>
                   /\ pc' = "solved"
              ELSE /\ leg_placement' = <<>>
                   /\ pc' = "solver_raised"
    /\ UNCHANGED <<inputs, unit_scale_to_si, target_container, source_antenna,
                   target_antenna, target_owner_history, segment_model,
                   antenna_model, migrated_ids, next_guid, output_file,
                   exit_code, prev_model>>

NextSolver == SolveLeg

SpecSolver == InitSolver /\ [][NextSolver]_vars

\* compute_leg_placement on legs with sections, in metres or decimetres
FineScales == {Rat(1, 1), Rat(1, 10)}

InitOffset ==
    /\ pc = "solver"
    /\ args \in [segment_exists : {TRUE}, antenna_exists : {TRUE},
                 height_m : 0..MaxHeight, leg_index : -1..MaxLegIndex,
                 azimuth_deg : {0}]
    /\ segment_file = ColumnsModel
    /\ column_geometry \in [1..MaxColumns -> ProfiledLegs]
    /\ reference_inverse = Identity3
    /\ antenna_file = EmptyModel
    /\ segment_model = ColumnsModel
    /\ antenna_model = EmptyModel
    /\ unit_scale_to_si \in FineScales
    /\ candidates = <<>>
    /\ leg_placement = <<>>
    /\ target_container = Null
    /\ source_antenna = Null
    /\ target_antenna = Null
    /\ target_owner_history = Null
    /\ migrated_ids = <<>>
    /\ next_guid = 1
    /\ output_file = <<>>
    /\ exit_code = <<>>
    /\ prev_model = ColumnsModel
    /\ calls = <<>>

NextOffset == SolveLeg

SpecOffset == InitOffset /\ [][NextOffset]_vars

----------------------------------------------------------------------------
(* attach_to_container called twice with the same container and product *)

\* a segment file whose storey has a second containment relation, holding
\* the second column
TwoRelationFile(has_history, siblings) ==
    SegmentFile(has_history, <<FirstColumn>>, siblings)
    @@ (20 :> [Root("IfcRelContainedInSpatialStructure", 20,
                    IF has_history THEN 1 ELSE Null)
                 EXCEPT !.Relating = Storey, !.Related = <<SecondColumn>>])

AttachModels ==
    SegmentFiles \cup
    {TwoRelationFile(h, n) : h \in BOOLEAN, n \in 0..MaxSiblings}

\* the elements of a model that can be attached
Products(model) ==
    {i \in DOMAIN model : model[i].is_a \in {"IfcColumn", "IfcProxy"}}

InitAttach ==
    /\ pc = "attach_first"
    /\ args = [segment_exists |-> TRUE, antenna_exists |-> TRUE, height_m |-> 1,
               leg_index |-> 0, azimuth_deg |-> 0]
    /\ segment_file \in AttachModels
    /\ column_geometry = EmptyModel
    /\ reference_inverse = Identity3
    /\ antenna_file = EmptyModel
    /\ segment_model = segment_file
    /\ antenna_model = EmptyModel
    /\ unit_scale_to_si = Rat(1, 1)
    /\ candidates = <<>>
    /\ leg_placement = <<>>
    /\ target_container = Storey
    /\ source_antenna = Null
    /\ target_antenna \in Products(segment_file)
    /\ target_owner_history = Null
    /\ migrated_ids = <<>>
    /\ next_guid = Max(GuidsOf(segment_file)) + 1
    /\ output_file = <<>>
    /\ exit_code = <<>>
    /\ prev_model = segment_file
    /\ calls = <<>>

AttachCall(from, to) ==
    /\ pc = from
    /\ pc' = to
    /\ prev_model' = segment_model
    /\ calls' = Append(calls, "attach_to_container")
    /\ LET a == attach_to_container(segment_model, next_guid,
                                    target_container, target_antenna)
       IN  segment_model' = a.model /\ next_guid' = a.guid
    /\ UNCHANGED <<inputs, locals, antenna_model, migrated_ids, output_file,
                   exit_code>>

AttachFirst == AttachCall("attach_first", "attach_second")
AttachSecond == AttachCall("attach_second", "attach_done")

NextAttach == AttachFirst \/ AttachSecond

SpecAttach == InitAttach /\ [][NextAttach]_vars

----------------------------------------------------------------------------
(* harmonize_migrated_owner_history alone, after a drawn migration session *)

HarmonizeDonors ==
    {AntennaFile({}, th, ah, "IfcProductDefinitionShape", "IfcMaterial", 31) :
        th \in {1, 13}, ah \in {1, Null}}

\* the entities a session may be asked to migrate: the two owner histories,
\* the antenna, its type, the property set and the material
SessionRoots == {1, 13, Antenna, AntennaType, 10, 12}

\* the state after migrator.migrate(first, model); migrator.migrate(second, model)
SessionOf(donor, model, first, second) ==
    Migrate(donor,
            Migrate(donor, [model |-> model, ids |-> <<>>, ok |-> TRUE, out |-> Null],
                    first),
            second)

InitHarmonize ==
    /\ pc = "harmonize_call"
    /\ args = [segment_exists |-> TRUE, antenna_exists |-> TRUE, height_m |-> 1,
               leg_index |-> 0, azimuth_deg |-> 0]
    /\ segment_file \in {SegmentFile(h, <<FirstColumn, SecondColumn>>, 0) : h \in BOOLEAN}
    /\ column_geometry = EmptyModel
    /\ reference_inverse = Identity3
    /\ antenna_file \in HarmonizeDonors
    /\ antenna_model = antenna_file
    /\ \E first \in SessionRoots, second \in SessionRoots :
          LET session == SessionOf(antenna_file, segment_file, first, second)
          IN  /\ segment_model = session.model
              /\ migrated_ids = session.ids
    /\ target_owner_history \in
          {i \in DOMAIN segment_model : segment_model[i].is_a = "IfcOwnerHistory"}
          \cup {Null}
    /\ unit_scale_to_si = Rat(1, 1)
    /\ candidates = <<>>
    /\ leg_placement = <<>>
    /\ target_container = Null
    /\ source_antenna = Null
    /\ target_antenna = Null
    /\ next_guid = Max(GuidsOf(segment_file) \cup GuidsOf(antenna_file)) + 1
    /\ output_file = <<>>
    /\ exit_code = <<>>
    /\ prev_model = segment_model
    /\ calls = <<>>

HarmonizeCall ==
    /\ pc = "harmonize_call"
    /\ pc' = "harmonized"
    /\ prev_model' = segment_model
    /\ calls' = Append(calls, "harmonize_migrated_owner_history")
    /\ \E order \in Orderings(MigratedOwnerHistories(segment_model, migrated_ids,
                                                     target_owner_history)) :
            segment_model' = harmonize_migrated_owner_history(
                                 segment_model, migrated_ids,
                                 target_owner_history, order)
    /\ UNCHANGED <<inputs, locals, antenna_model, migrated_ids, next_guid,
                   output_file, exit_code>>

NextHarmonize == HarmonizeCall

SpecHarmonize == InitHarmonize /\ [][NextHarmonize]_vars

----------------------------------------------------------------------------
(* Properties *)

\* the entities of the segment model that the run created
Created == DOMAIN segment_model \ DOMAIN segment_file

\* the index of the --leg-index argument is outside [0, count)
BadIndex == args.leg_index < 0 \/ args.leg_index >= Len(candidates)

\* C1: when the placement solver finds no candidate at the requested
\* elevation, or the selection index is outside [0, candidate count), the
\* command terminates with exit code 2.
C1_SolverFailureExitsWith2 ==
    (/\ calls = <<"compute_leg_placement">>
     /\ leg_placement = <<>>
     /\ (candidates = <<>> \/ BadIndex))
    => exit_code = <<2>>

AllSteps ==
    <<"compute_leg_placement", "migrate", "create_axis_placement",
      "copy_inverse_relations", "attach_to_container",
      "refresh_migrated_root_guids", "harmonize_migrated_owner_history",
      "write">>

\* C2: the output file is written only as the last step of a run in which
\* solving, migration, frame creation, rewiring, attachment and
\* harmonisation have all completed, and holds the model as they left it;
\* a run that failed or returned early has written nothing.
C2_WriteIsLastAndOnlyOnSuccess ==
    /\ output_file # <<>> =>
            /\ calls = AllSteps
            /\ pc = "done"
            /\ exit_code = <<0>>
            /\ output_file = <<segment_model>>
    /\ pc \in {"raised", "exit"} => output_file = <<>>

\* C2 witness: a migration error inside copy_inverse_relations ended the run
\* and nothing was written.
C2_MigrationFailedNothingWritten ==
    /\ pc = "raised"
    /\ calls # <<>>
    /\ calls[Len(calls)] = "copy_inverse_relations"
    /\ output_file = <<>>

\* C3: on every path where main returns 2 the segment model is as it was
\* read (no entity created, modified or removed) and no file is written.
C3_Return2LeavesTargetUntouched ==
    exit_code = <<2>> => (segment_model = segment_file /\ output_file = <<>>)

\* C3 witness: main returned 2 because the selected leg is in no spatial
\* structure, both models being open.
C3_LegNotContainedReturned2 ==
    /\ exit_code = <<2>>
    /\ leg_placement # <<>>
    /\ antenna_model # EmptyModel
    /\ ContainedInStructure(segment_model, leg_placement[1].leg) = <<>>

\* the related elements of the relation attach_to_container works on
ContainerList(model) ==
    model[ContainsElements(model, target_container)[1]].Related

\* C4: after two calls of attach_to_container with the same container and
\* product, the product occurs exactly once in the related elements of the
\* container's containment relation.
C4_AttachTwiceOneOccurrence ==
    pc = "attach_done" => Count(ContainerList(segment_model), target_antenna) = 1

\* C4 witness: both calls made, the container having had no containment
\* relation before the first.
C4_AttachedTwiceToBareContainer ==
    /\ pc = "attach_done"
    /\ ContainsElements(segment_file, target_container) = <<>>

\* C5: a call of attach_to_container on a container that has a containment
\* relation keeps its related elements in order, adds the product at the end
\* if absent, and creates nothing; on a container without one it creates
\* exactly one containment relation holding the product. Nothing else changes.
C5_AttachAppendsOrCreates ==
    pc \in {"attach_second", "attach_done"} =>
        LET had == ContainsElements(prev_model, target_container)
            new == DOMAIN segment_model \ DOMAIN prev_model
        IN  IF had # <<>>
            THEN /\ DOMAIN segment_model = DOMAIN prev_model
                 /\ \A i \in DOMAIN prev_model \ {had[1]} :
                        segment_model[i] = prev_model[i]
                 /\ segment_model[had[1]].Related =
                        prev_model[had[1]].Related \o
                        (IF target_antenna \in Range(prev_model[had[1]].Related)
                         THEN <<>> ELSE <<target_antenna>>)
                 /\ [segment_model[had[1]] EXCEPT !.Related = <<>>] =
                        [prev_model[had[1]] EXCEPT !.Related = <<>>]
            ELSE /\ Cardinality(new) = 1
                 /\ \A i \in DOMAIN prev_model :
                        i \in DOMAIN segment_model /\ segment_model[i] = prev_model[i]
                 /\ \A i \in new :
                        /\ segment_model[i].is_a = "IfcRelContainedInSpatialStructure"
                        /\ segment_model[i].Relating = target_container
                        /\ segment_model[i].Related = <<target_antenna>>

\* C5 witness: the first call appended the product behind the elements the
\* relation already held.
C5_AppendedBehindSiblings ==
    /\ pc = "attach_second"
    /\ ContainsElements(prev_model, target_container) # <<>>
    /\ ContainerList(prev_model) # <<>>
    /\ target_antenna \notin Range(ContainerList(prev_model))
    /\ ContainerList(segment_model) = Append(ContainerList(prev_model), target_antenna)

\* C6: harmonize never removes the record passed as its target record.
C6_TargetRecordSurvives ==
    (pc = "harmonized" /\ target_owner_history # Null)
    => target_owner_history \in DOMAIN segment_model

\* C6 witness: harmonize removed an obsolete record while the target record,
\* itself in the manifest and referenced by nothing, stayed.
C6_UnreferencedManifestRecordKept ==
    /\ pc = "harmonized"
    /\ target_owner_history \in Range(IdsValues(migrated_ids))
    /\ get_inverse(prev_model, target_owner_history) = <<>>
    /\ DOMAIN segment_model # DOMAIN prev_model
    /\ target_owner_history \in DOMAIN segment_model

\* the root entities the run created
CreatedRoots == {i \in Created : IsA(segment_model[i], "IfcRoot")}

\* C7: after a successful run every root entity the run created carries a
\* GlobalId that occurs nowhere in the antenna model and on no other entity
\* of the segment model.
C7_CreatedRootsHaveFreshGuids ==
    pc = "done" =>
        \A i \in CreatedRoots :
            /\ segment_model[i].GlobalId \notin GuidsOf(antenna_model)
            /\ \A j \in DOMAIN segment_model \ {i} :
                    segment_model[j].GlobalId # segment_model[i].GlobalId

\* C7 witness: a run succeeded whose antenna shared its GlobalId with a
\* column of the segment, and which cloned a type and re-created relations.
C7_CollidingDonorMigrated ==
    /\ pc = "done"
    /\ antenna_model[source_antenna].GlobalId \in GuidsOf(segment_file)
    /\ \E i \in CreatedRoots : IsA(segment_model[i], "IfcTypeObject")
    /\ \E i \in CreatedRoots : segment_model[i].is_a = "IfcRelAssociatesMaterial"

\* copy_inverse_relations has returned
AfterCopy == pc \in {"attach", "refresh", "harmonize", "antenna_guid", "write", "done"}

\* the material associations of the antenna in the antenna model
DonorMaterialRelations ==
    {r \in DOMAIN antenna_model :
        /\ antenna_model[r].is_a = "IfcRelAssociatesMaterial"
        /\ source_antenna \in Range(antenna_model[r].Related)}

CreatedOfClass(class) == {i \in Created : segment_model[i].is_a = class}

\* C8: when the antenna has two inbound material associations with the same
\* relating material, copy_inverse_relations creates exactly one material
\* clone and both re-created associations reference it.
C8_SharedMaterialClonedOnce ==
    (/\ AfterCopy
     /\ Cardinality(DonorMaterialRelations) = 2
     /\ Cardinality({antenna_model[r].Relating : r \in DonorMaterialRelations}) = 1)
    => /\ Cardinality(CreatedOfClass("IfcMaterial")) = 1
       /\ Cardinality(CreatedOfClass("IfcRelAssociatesMaterial")) = 2
       /\ \A r \in CreatedOfClass("IfcRelAssociatesMaterial") :
              segment_model[r].Relating \in CreatedOfClass("IfcMaterial")

\* C8 witness: copy_inverse_relations has just re-created two associations
\* of one shared material.
C8_TwoAssociationsCopied ==
    /\ pc = "attach"
    /\ Cardinality(DonorMaterialRelations) = 2
    /\ Cardinality({antenna_model[r].Relating : r \in DonorMaterialRelations}) = 1
    /\ Cardinality(CreatedOfClass("IfcRelAssociatesMaterial")) = 2

\* the entities main() and the rewirer create themselves, not by migration
MadeDirectly(e) ==
    \/ e.is_a \in {"IfcRelDefinesByType", "IfcRelDefinesByProperties",
                   "IfcRelAssociatesMaterial", "IfcRelContainedInSpatialStructure",
                   "IfcCartesianPoint", "IfcDirection", "IfcAxis2Placement3D"}
    \/ e.is_a = "IfcLocalPlacement" /\ e.Related # <<>>

\* C9: within the session every source entity has one clone however often
\* it is migrated: the manifest holds each source id once, its target is an
\* entity of the source's class in the segment model, and no entity was
\* created by migration besides the targets of the manifest.
C9_OneCloneForEachSource ==
    pc \in {"placement", "copy", "attach", "refresh", "harmonize"} =>
        /\ \A i, j \in 1..Len(migrated_ids) :
                migrated_ids[i].source = migrated_ids[j].source => i = j
        /\ \A i \in 1..Len(migrated_ids) :
                /\ migrated_ids[i].target \in Created
                /\ segment_model[migrated_ids[i].target].is_a =
                        antenna_model[migrated_ids[i].source].is_a
        /\ \A c \in Created :
                \/ c \in Range(IdsValues(migrated_ids))
                \/ MadeDirectly(segment_model[c])

\* C9 witness: the type was migrated for a type relation and again as a
\* related object of a material association, and has one clone.
C9_TypeMigratedTwice ==
    /\ pc = "attach"
    /\ \E r \in DOMAIN antenna_model :
            /\ antenna_model[r].is_a = "IfcRelDefinesByType"
            /\ source_antenna \in Range(antenna_model[r].Related)
    /\ \E r \in DonorMaterialRelations :
            \E o \in Range(antenna_model[r].Related) :
                IsA(antenna_model[o], "IfcTypeObject")
    /\ Cardinality({i \in Created : IsA(segment_model[i], "IfcTypeObject")}) = 1

\* the target height lies between the end heights of the axis, end points
\* included, whichever way the axis runs
SpansHeight(z0, z1) ==
    LET lo == IF z0 <= z1 THEN z0 ELSE z1
        hi == IF z0 <= z1 THEN z1 ELSE z0
    IN  /\ lo * unit_scale_to_si.n <= args.height_m * unit_scale_to_si.d
        /\ args.height_m * unit_scale_to_si.d <= hi * unit_scale_to_si.n

\* the member passes the filters of the solver
IsCandidate(column) ==
    LET axis == get_column_axis_points(column_geometry[column])
    IN  /\ axis.ok
        /\ axis.start[3] # axis.end[3]
        /\ SpansHeight(axis.start[3], axis.end[3])

ExpectedLegs == SelectSeq(by_type(segment_model, "IfcColumn"), IsCandidate)

\* C10: the candidate list is the members whose axis is found, is not
\* horizontal and spans the target height (end points included), in model
\* order; the solver fails exactly when that list is empty or the index is
\* outside [0, count), and otherwise returns the candidate at the index.
C10_CandidatesAndSelection ==
    pc \in {"solved", "solver_raised"} =>
        /\ [i \in 1..Len(candidates) |-> candidates[i].leg] = ExpectedLegs
        /\ pc = "solver_raised" <=>
                \/ ExpectedLegs = <<>>
                \/ args.leg_index < 0
                \/ args.leg_index >= Len(ExpectedLegs)
        /\ pc = "solved" =>
                /\ leg_placement = <<candidates[args.leg_index + 1]>>
                /\ leg_placement[1].leg = ExpectedLegs[args.leg_index + 1]

\* C10 witness: the second candidate was returned, reached at the end point
\* of its axis, after a member without an axis was skipped.
C10_SecondCandidateAtEndPoint ==
    /\ pc = "solved"
    /\ args.leg_index = 1
    /\ \E c \in DOMAIN column_geometry :
            /\ c < leg_placement[1].leg
            /\ ~get_column_axis_points(column_geometry[c]).ok
    /\ leg_placement[1].axis_end[3] * unit_scale_to_si.n =
            args.height_m * unit_scale_to_si.d

----------------------------------------------------------------------------
(* Properties of the radial offset *)

\* the type of the column has a "Body" representation with an extruded solid
HasSolid(geometry) ==
    /\ geometry.IsTypedBy
    /\ \E i \in 1..Len(geometry.RepresentationMaps) :
            /\ geometry.RepresentationMaps[i].RepresentationIdentifier = "Body"
            /\ \E j \in 1..Len(geometry.RepresentationMaps[i].Items) :
                    geometry.RepresentationMaps[i].Items[j].is_a = "IfcExtrudedAreaSolid"

\* the three cases of the offset, on the radii of the candidate's section
OffsetRule(c) ==
    LET radii == get_column_profile_info(column_geometry[c.leg])
        outer == radii.outer
        inner == radii.inner
    IN  /\ (outer > 0 /\ inner > 0 /\ inner < outer)
                => RatEq(c.radial_offset, Rat(outer + inner, 2))
        /\ (outer > 0 /\ ~(inner > 0 /\ inner < outer))
                => RatEq(c.radial_offset, Rat(outer, 2))
        /\ outer = 0 => RatEq(c.radial_offset, Rat(0, 1))
        /\ ~HasSolid(column_geometry[c.leg]) => outer = 0

\* insertion = center + offset * radialDirection, coordinate by coordinate
InsertionRule(c) ==
    LET radial == UnitRadial(Sub(c.axis_end, c.axis_start))
    IN  \A k \in 1..3 :
            RatEq(c.insertion_point[k],
                  RatAdd(c.center_at_height[k], RatMul(c.radial_offset, radial[k])))

\* the example in decimetres: axis (0,0,0)-(0,0,60), elevation 30, a section
\* of outer radius 2 without an inner curve
IsExample(c) ==
    /\ c.axis_start = <<0, 0, 0>>
    /\ c.axis_end = <<0, 0, 60>>
    /\ args.height_m * unit_scale_to_si.d = 30 * unit_scale_to_si.n
    /\ get_column_profile_info(column_geometry[c.leg]) = [outer |-> 2, inner |-> 0]

PointIs(p, x, y, z) ==
    RatEq(p[1], Rat(x, 1)) /\ RatEq(p[2], Rat(y, 1)) /\ RatEq(p[3], Rat(z, 1))

Scanned == pc \in {"solved", "solver_raised"}

\* C11 as stated: for every candidate the offset is (outer+inner)/2, outer/2
\* or 0 by the three cases, the insertion point is center + offset *
\* radialDirection, and in the example (outer radius 0.2, elevation 3) the
\* insertion point is (0.1, 0, 3), here (1, 0, 30) in decimetres.
C11_OffsetAndExampleOnX ==
    Scanned =>
        \A i \in 1..Len(candidates) :
            /\ OffsetRule(candidates[i])
            /\ InsertionRule(candidates[i])
            /\ IsExample(candidates[i])
                    => PointIs(candidates[i].insertion_point, 1, 0, 30)

\* C11 amended: the same offset and insertion rules, and in the example the
\* insertion point is (0, -0.1, 3), here (0, -1, 30) in decimetres, since
\* cross(worldX, (0,0,1)) = (0, -1, 0).
C11_OffsetAndExampleOnMinusY ==
    Scanned =>
        \A i \in 1..Len(candidates) :
            /\ OffsetRule(candidates[i])
            /\ InsertionRule(candidates[i])
            /\ IsExample(candidates[i])
                    => PointIs(candidates[i].insertion_point, 0, -1, 30)

\* C11 witness: the leg of the example was selected, its offset being 0.1
\* and its center (0, 0, 3)
C11_ExampleLegSelected ==
    /\ pc = "solved"
    /\ IsExample(leg_placement[1])
    /\ RatEq(leg_placement[1].radial_offset, Rat(1, 1))
    /\ PointIs(leg_placement[1].center_at_height, 0, 0, 30)

----------------------------------------------------------------------------
(* Properties of harmonize *)

Harmonized == pc = "harmonized" /\ target_owner_history # Null

\* the targets of the migration manifest
ManifestTargets == Range(IdsValues(migrated_ids))

\* C12: after harmonize returns with a non-null target record, every root
\* entity of the manifest that still exists references the target record,
\* and every entity outside the manifest has the change-tracking reference
\* it had before the call.
C12_ManifestRootsRetargetedOthersKept ==
    Harmonized =>
        /\ \A id \in ManifestTargets \cap DOMAIN segment_model :
                IsA(segment_model[id], "IfcRoot")
                    => segment_model[id].OwnerHistory = target_owner_history
        /\ \A id \in DOMAIN segment_model \ ManifestTargets :
                /\ id \in DOMAIN prev_model
                /\ segment_model[id].OwnerHistory = prev_model[id].OwnerHistory

\* C12 witness: a migrated root that had no change-tracking reference now
\* has the target record, while a column outside the manifest keeps a
\* different record.
C12_RetargetedBesideUntouched ==
    /\ Harmonized
    /\ \E id \in ManifestTargets \cap DOMAIN segment_model :
            /\ IsA(segment_model[id], "IfcRoot")
            /\ prev_model[id].OwnerHistory = Null
            /\ segment_model[id].OwnerHistory = target_owner_history
    /\ \E id \in DOMAIN segment_model \ ManifestTargets :
            /\ segment_model[id].is_a = "IfcColumn"
            /\ segment_model[id].OwnerHistory \notin {Null, target_owner_history}


\* the entities harmonize removed
Removed == DOMAIN prev_model \ DOMAIN segment_model

\* the model between the two loops of harmonize: the roots of the manifest
\* already reference the target record
Retargeted ==
    Retarget(prev_model, MigratedEntities(prev_model, migrated_ids),
             target_owner_history, 1, {}).model

CascadeClasses ==
    {"IfcOwnerHistory", "IfcApplication", "IfcPersonAndOrganization",
     "IfcPerson", "IfcOrganization"}

\* C13: harmonize removes an entity only when nothing references it any
\* more: a removed change-tracking record is referenced by nothing once the
\* roots are retargeted, a removed application, user, person or organization
\* was referenced only by entities removed as well, and no entity left in
\* the model references a removed one.
C13_RemovedOnlyWhenUnreferenced ==
    Harmonized =>
        /\ \A x \in Removed :
                /\ prev_model[x].is_a \in CascadeClasses
                /\ prev_model[x].is_a = "IfcOwnerHistory"
                        => get_inverse(Retargeted, x) = <<>>
                /\ Range(get_inverse(Retargeted, x)) \subseteq Removed
        /\ \A i \in DOMAIN segment_model :
                RefsOf(segment_model[i]) \subseteq DOMAIN segment_model

\* C13 witness: an obsolete record and its user were removed, while its
\* application, still referenced by a remaining record, stayed.
C13_CascadeStoppedAtSharedApplication ==
    /\ Harmonized
    /\ \E x \in Removed :
            /\ prev_model[x].is_a = "IfcOwnerHistory"
            /\ prev_model[x].OwningUser \in Removed
            /\ prev_model[x].OwningApplication \in DOMAIN segment_model
            /\ get_inverse(segment_model, prev_model[x].OwningApplication) # <<>>

----------------------------------------------------------------------------
(* Properties of the rewirer *)

\* the relations of a class among the inverse references of the donor
\* antenna, in the order copy_inverse_relations visits them
DonorRelations(class) ==
    SelectSeq(get_inverse(antenna_model, source_antenna),
              LAMBDA r : antenna_model[r].is_a = class)

\* the relations of a class that the run created, in the order of creation
CreatedRelations(class) ==
    SelectSeq(by_type(segment_model, class), LAMBDA r : r \in Created)

\* the clone the manifest records for a donor entity
CloneOf(source) ==
    LET at == {i \in 1..Len(migrated_ids) : migrated_ids[i].source = source}
    IN  IF at = {} THEN Null ELSE migrated_ids[CHOOSE i \in at : TRUE].target

\* the related objects of a donor association with the antenna replaced by
\* its clone, type objects by theirs, and the others left out
ExpectedRelated(relation) ==
    LET kept == SelectSeq(antenna_model[relation].Related,
                    LAMBDA x : x = source_antenna
                               \/ IsA(antenna_model[x], "IfcTypeObject"))
    IN  [i \in 1..Len(kept) |->
            IF kept[i] = source_antenna THEN target_antenna ELSE CloneOf(kept[i])]

\* copy_inverse_relations has returned and the manifest is as it left it
Copied == pc \in {"attach", "refresh", "harmonize"}

\* C14: for each material association of the donor antenna one association
\* is created, in the same order; its related objects are the antenna clone
\* for the antenna and the clone of each type object, in the original
\* order, the others omitted; its relating material is the clone of the
\* donor's material; everything it references was created in the target.
C14_MaterialAssociationsRewired ==
    Copied =>
        LET donor == DonorRelations("IfcRelAssociatesMaterial")
            made == CreatedRelations("IfcRelAssociatesMaterial")
        IN  /\ Len(made) = Len(donor)
            /\ \A k \in 1..Len(donor) :
                    /\ segment_model[made[k]].Related = ExpectedRelated(donor[k])
                    /\ segment_model[made[k]].Relating =
                            CloneOf(antenna_model[donor[k]].Relating)
                    /\ segment_model[made[k]].Relating \in Created
                    /\ Range(segment_model[made[k]].Related) \subseteq Created
                    /\ segment_model[segment_model[made[k]].Relating].is_a =
                            antenna_model[antenna_model[donor[k]].Relating].is_a

\* C14 witness: an association of a proxy, the antenna and the type was
\* re-created over the antenna clone and the type clone.
C14_ProxyOmittedTypeCloned ==
    /\ pc = "attach"
    /\ \E k \in 1..Len(DonorRelations("IfcRelAssociatesMaterial")) :
            LET from == antenna_model[DonorRelations("IfcRelAssociatesMaterial")[k]]
                to == segment_model[CreatedRelations("IfcRelAssociatesMaterial")[k]]
            IN  /\ Len(from.Related) = 3
                /\ Len(to.Related) = 2
                /\ to.Related[1] = target_antenna
                /\ IsA(segment_model[to.Related[2]], "IfcTypeObject")


RelationshipClasses ==
    {"IfcRelDefinesByType", "IfcRelDefinesByProperties",
     "IfcRelAssociatesMaterial", "IfcRelContainedInSpatialStructure"}

\* the relationship entities the run created
MadeRelations == {r \in Created : segment_model[r].is_a \in RelationshipClasses}

ContainmentsOf(model, element) ==
    {r \in DOMAIN model :
        /\ model[r].is_a = "IfcRelContainedInSpatialStructure"
        /\ element \in Range(model[r].Related)}

\* C16: after a successful run the antenna clone occurs once in the related
\* elements of exactly one containment relation, whose relating structure
\* is the container of the selected leg, and the run created no containment
\* relation and no spatial structure from the donor.
C16_AntennaContainedOnceWithLeg ==
    pc = "done" =>
        /\ Cardinality(ContainmentsOf(segment_model, target_antenna)) = 1
        /\ \A r \in ContainmentsOf(segment_model, target_antenna) :
                /\ Count(segment_model[r].Related, target_antenna) = 1
                /\ segment_model[r].Relating =
                        segment_file[ContainedInStructure(
                            segment_file, leg_placement[1].leg)[1]].Relating
        /\ CreatedOfClass("IfcRelContainedInSpatialStructure") = {}
        /\ CreatedOfClass("IfcBuildingStorey") = {}

\* C16 witness: a run succeeded whose donor antenna was contained in a
\* storey of the donor, next to a proxy, and whose leg has a sibling in
\* its container.
C16_DonorContainmentIgnored ==
    /\ pc = "done"
    /\ ContainmentsOf(antenna_model, source_antenna) # {}
    /\ \E r \in ContainmentsOf(segment_model, target_antenna) :
            Len(segment_model[r].Related) >= 3

----------------------------------------------------------------------------
(* Properties of the normalizations *)

\* the axis delta of a column whose axis is found
DeltaOf(column) ==
    LET axis == get_column_axis_points(column_geometry[column])
    IN  Sub(axis.end, axis.start)

\* C17: for every member that passes the filters of the solver neither
\* normalize() raises: the axis delta is not the zero vector, and when
\* cross(globalUp, delta) is the zero vector cross(worldX, delta) is not; so
\* the scan never ends with the error of a degenerate vector.
C17_NormalizationsNeverFail ==
    Scanned =>
        /\ calls # <<"degenerate">>
        /\ \A column \in DOMAIN column_geometry :
                IsCandidate(column) =>
                    /\ ~NormalizeRaises(DeltaOf(column))
                    /\ NormBelowEps(Cross(global_up, DeltaOf(column)))
                            => ~NormBelowEps(Cross(world_x, DeltaOf(column)))
                    /\ ~NormalizeRaises(RadialDirection(DeltaOf(column)))

\* C17 witness: a vertical leg, for which the fallback is taken, was
\* selected after an inclined one became a candidate.
C17_VerticalLegSelected ==
    /\ pc = "solved"
    /\ NormBelowEps(Cross(global_up,
                          Sub(leg_placement[1].axis_end, leg_placement[1].axis_start)))
    /\ \E i \in 1..Len(candidates) :
            ~NormBelowEps(Cross(global_up,
                                Sub(candidates[i].axis_end, candidates[i].axis_start)))

====
